---- MODULE Spec2Model ----
(***************************************************************************)
(* HtmlParser (src/src/index.ts): HTML -> intermediate document (encode)   *)
(* and intermediate document -> HTML fragment (decodeToHtml).              *)
(*                                                                         *)
(* Strings are sequences of string tokens (a token is one character, or    *)
(* one indivisible piece of markup).  Numbers are JavaScript numbers in    *)
(* tenths: [t |-> "num", v |-> 192] is 19.2, and NaN is [t |-> "NaN"].     *)
(***************************************************************************)
EXTENDS Integers, Sequences, FiniteSets, TLC

(***************************************************************************)
(* Bounds of the model.                                                    *)
(***************************************************************************)
\* longest raw input (in tokens) given to encode when there is no DOMParser
MaxLen == 5
\* most nodes below <body> in a parsed document
MaxNodes == 3

(***************************************************************************)
(* Strings.                                                                *)
(***************************************************************************)
NL == "\n"
\* the characters JavaScript's \s and String.prototype.trim treat as white space
WhiteSpace == {" ", NL, "\t", "\r"}

RECURSIVE Concat(_)
\* Array.prototype.join(''): the concatenation of a sequence of strings
Concat(ss) == IF ss = <<>> THEN <<>> ELSE Head(ss) \o Concat(Tail(ss))

\* the members of a set of integers, in increasing order
Sorted(S) ==
    [k \in 1..Cardinality(S) |-> CHOOSE x \in S : Cardinality({y \in S : y < x}) = k - 1]

\* the elements of s at the positions in P, in order
AtPositions(s, P) == [k \in 1..Cardinality(P) |-> s[Sorted(P)[k]]]

\* the positions of s that hold no white space
Inked(s) == {i \in 1..Len(s) : s[i] \notin WhiteSpace}

\* String.prototype.trimStart
TrimStart(s) ==
    IF Inked(s) = {} THEN <<>>
    ELSE SubSeq(s, CHOOSE i \in Inked(s) : \A j \in Inked(s) : i <= j, Len(s))

\* String.prototype.trimEnd
TrimEnd(s) ==
    IF Inked(s) = {} THEN <<>>
    ELSE SubSeq(s, 1, CHOOSE i \in Inked(s) : \A j \in Inked(s) : j <= i)

\* String.prototype.trim
Trim(s) == TrimEnd(TrimStart(s))

\* the number of times c occurs among the first i characters of s
Occurrences(s, c, i) == Cardinality({j \in 1..i : s[j] = c})

\* where, in s.replace(/c/g, r), what replaces the i-th character of s starts
ReplacedFrom(s, c, r, i) == i + (Len(r) - 1) * Occurrences(s, c, i - 1)

\* the character of s that position k of s.replace(/c/g, r) comes from
ReplacedSource(s, c, r, k) ==
    CHOOSE i \in 1..Len(s) :
        /\ ReplacedFrom(s, c, r, i) <= k
        /\ k < ReplacedFrom(s, c, r, i + 1)

\* s.replace(/c/g, r) for a single character c and a replacement string r
ReplaceAll(s, c, r) ==
    [k \in 1..(Len(s) + (Len(r) - 1) * Occurrences(s, c, Len(s))) |->
        IF s[ReplacedSource(s, c, r, k)] = c
        THEN r[k - ReplacedFrom(s, c, r, ReplacedSource(s, c, r, k)) + 1]
        ELSE s[ReplacedSource(s, c, r, k)]]

\* s.replace(/\s+/g, ' '): every maximal run of white space becomes one space,
\* so of a run only its first character stays, as a space
CollapseWhiteSpace(s) ==
    AtPositions([i \in 1..Len(s) |-> IF s[i] \in WhiteSpace THEN " " ELSE s[i]],
                {i \in 1..Len(s) : s[i] \in WhiteSpace => (i = 1 \/ s[i - 1] \notin WhiteSpace)})

\* the piece of s that starts at i and ends before the next sep (or at the end)
PieceAt(s, i, sep) ==
    SubSeq(s, i, IF \E j \in i..Len(s) : s[j] = sep
                 THEN (CHOOSE j \in i..Len(s) : s[j] = sep /\ \A k \in i..(j - 1) : s[k] # sep) - 1
                 ELSE Len(s))

\* s.split(sep) for a one-character separator: a piece starts at the start of s
\* and after every separator
Split(s, sep) ==
    [k \in 1..(Cardinality({i \in 1..Len(s) : s[i] = sep}) + 1) |->
        PieceAt(s, Sorted({1} \cup {i + 1 : i \in {j \in 1..Len(s) : s[j] = sep}})[k], sep)]

\* s.split(/\n+/): a maximal run of newlines is one separator, so a piece is
\* empty only before a leading separator, after a trailing one, or when s is ''
SplitNewlines(s) ==
    (IF s = <<>> \/ Head(s) = NL THEN << <<>> >> ELSE <<>>)
    \o [k \in 1..Cardinality({i \in 1..Len(s) : s[i] # NL /\ (i = 1 \/ s[i - 1] = NL)}) |->
          PieceAt(s, Sorted({i \in 1..Len(s) : s[i] # NL /\ (i = 1 \/ s[i - 1] = NL)})[k], NL)]
    \o (IF s # <<>> /\ s[Len(s)] = NL THEN << <<>> >> ELSE <<>>)

(***************************************************************************)
(* Numbers.                                                                *)
(***************************************************************************)
NaN == [t |-> "NaN"]
\* the number n/10
Tenths(n) == [t |-> "num", v |-> n]
\* the integer n
Num(n) == Tenths(n * 10)
IsNaN(a) == a.t = "NaN"

\* a * b  (the products the model forms are exact in tenths)
Times(a, b) == IF IsNaN(a) \/ IsNaN(b) THEN NaN ELSE Tenths((a.v * b.v) \div 10)
\* a + b
Plus(a, b) == IF IsNaN(a) \/ IsNaN(b) THEN NaN ELSE Tenths(a.v + b.v)
\* Math.round: to the nearest integer, halves towards +Infinity
MathRound(a) == IF IsNaN(a) THEN NaN ELSE Tenths(((a.v + 5) \div 10) * 10)
\* Math.max of two numbers: NaN if either is NaN
MathMax(a, b) ==
    IF IsNaN(a) \/ IsNaN(b) THEN NaN ELSE IF a.v >= b.v THEN a ELSE b

(***************************************************************************)
(* Text runs (IntermediateText).                                           *)
(***************************************************************************)
\* characters in the ranges of rtlRegex; the model's alphabet has one of them
RtlChars == {"U+05D0"}

\* detectDir(text)
detectDir(text) ==
    IF \E i \in 1..Len(text) : text[i] \in RtlChars THEN "rtl" ELSE "ltr"

\* HtmlParser.estimateTextMetrics(content, fontSize, lineHeight)
estimateTextMetrics(content, fontSize, lineHeight) ==
    [ width   |-> MathMax(Num(1),
                     MathRound(Times(Times(Num(Len(content)), fontSize), Tenths(6)))),
      height  |-> MathMax(Num(1), MathRound(lineHeight)),
      ascent  |-> MathRound(Times(fontSize, Tenths(8))),
      descent |-> MathRound(Times(fontSize, Tenths(2))) ]

\* `${id}-page-1-text-${idx}`
TextId(id, idx) == id \o <<"-page-1-text-", ToString(idx)>>

\* `${id}-page-1`
PageId(id) == id \o <<"-page-1">>

RECURSIVE MaxBottom(_, _)
\* texts.reduce((a, t) => Math.max(a, t.y + t.height), 0), from accumulator a
MaxBottom(texts, a) ==
    IF texts = <<>> THEN a
    ELSE MaxBottom(Tail(texts), MathMax(a, Plus(Head(texts).y, Head(texts).height)))

\* Math.max(1, Math.round(texts.reduce(..., 0)))
PageHeightOf(texts) == MathMax(Num(1), MathRound(MaxBottom(texts, Num(0))))

\* { texts, pageHeight }
WithPageHeight(texts) == [ texts |-> texts, pageHeight |-> PageHeightOf(texts) ]

(***************************************************************************)
(* The plain-text fallback.                                                *)
(***************************************************************************)
\* new IntermediateText({...}) as fallbackPlainText calls it, m the metrics
FallbackTextOf(id, idx, content, y, fontSize, lineHeight, m) ==
    [ id |-> TextId(id, idx), content |-> content,
      fontSize |-> fontSize, fontFamily |-> <<>>, fontWeight |-> Num(400),
      italic |-> FALSE, color |-> <<"#000">>,
      width |-> m.width, height |-> m.height, lineHeight |-> lineHeight,
      x |-> Num(0), y |-> y, ascent |-> m.ascent, descent |-> m.descent,
      vertical |-> FALSE, dir |-> "ltr", rotate |-> Num(0), skew |-> Num(0),
      isEOL |-> TRUE ]

\* the run fallbackPlainText builds for one non-blank line
FallbackText(id, idx, content, y, fontSize, lineHeight) ==
    FallbackTextOf(id, idx, content, y, fontSize, lineHeight,
                   estimateTextMetrics(content, fontSize, lineHeight))

\* a line taken as it stands, untrimmed (a variant that C2 tells from the loop)
FallbackLineUntrimmed(ln) == ln

\* what becomes of one line: its trimmed content, or nothing when it is blank
FallbackLineContent(ln) == Trim(ln)

RECURSIVE FallbackLoop(_, _, _, _, _, _, _)

\* texts.push(t); y += height, and on to the next line
FallbackPush(lines, id, y, idx, texts, fontSize, lineHeight, t) ==
    FallbackLoop(Tail(lines), id, Plus(y, t.height), idx + 1, Append(texts, t),
                 fontSize, lineHeight)

\* one pass of the for-loop of fallbackPlainText, content the trimmed line
FallbackPass(lines, id, y, idx, texts, fontSize, lineHeight, content) ==
    IF content = <<>>
    THEN FallbackLoop(Tail(lines), id, Plus(y, lineHeight), idx, texts,
                      fontSize, lineHeight)
    ELSE FallbackPush(lines, id, y, idx, texts, fontSize, lineHeight,
                      FallbackText(id, idx, content, y, fontSize, lineHeight))

\* the for-loop of fallbackPlainText over the remaining lines
FallbackLoop(lines, id, y, idx, texts, fontSize, lineHeight) ==
    IF lines = <<>> THEN texts
    ELSE FallbackPass(lines, id, y, idx, texts, fontSize, lineHeight,
                      FallbackLineContent(Head(lines)))

\* html.split(/\n+/)
FallbackLines(html) == SplitNewlines(html)

\* HtmlParser.fallbackPlainText(html, id)
fallbackPlainText(html, id) ==
    WithPageHeight(FallbackLoop(FallbackLines(html), id, Num(0), 0, <<>>,
                                Num(16), MathRound(Times(Num(16), Tenths(12)))))

(***************************************************************************)
(* Inline styles.  An optional value is <<>> (undefined) or <<v>>.         *)
(***************************************************************************)
Undefined == <<>>
Def(v) == <<v>>

\* String.prototype.toLowerCase on one token
LowerTok(tok) ==
    CASE tok = "FONT-WEIGHT" -> "font-weight"
      [] tok = "COLOR"       -> "color"
      [] tok = "Italic"      -> "italic"
      [] OTHER               -> tok

\* String.prototype.toLowerCase
ToLowerCase(s) == [i \in 1..Len(s) |-> LowerTok(s[i])]

\* s.indexOf(c), counted from 1; 0 when c does not occur (JavaScript's -1)
IndexOf(s, c) ==
    IF \E i \in 1..Len(s) : s[i] = c
    THEN CHOOSE i \in 1..Len(s) : s[i] = c /\ \A j \in 1..(i - 1) : s[j] # c
    ELSE 0

\* s.replace(tok, ''): the first occurrence of tok removed
RemoveFirst(s, tok) ==
    LET i == IndexOf(s, tok)
    IN  IF i = 0 THEN s ELSE SubSeq(s, 1, i - 1) \o SubSeq(s, i + 1, Len(s))

\* Map.prototype.get
MapGet(map, key) == IF key \in DOMAIN map THEN Def(map[key]) ELSE Undefined

\* the key of a declaration: decl.slice(0, separator).trim().toLowerCase()
DeclKey(decl) == ToLowerCase(Trim(SubSeq(decl, 1, IndexOf(decl, ":") - 1)))

\* the value of a declaration: decl.slice(separator + 1).trim()
DeclValue(decl) == Trim(SubSeq(decl, IndexOf(decl, ":") + 1, Len(decl)))

\* whether the reducer of buildInlineStyleMap sets an entry for the declaration
DeclSets(decl) == IndexOf(decl, ":") # 0 /\ DeclKey(decl) # <<>> /\ DeclValue(decl) # <<>>

\* the Map the reduce over decls ends with: each key that is set holds the
\* value of the last declaration that sets it
StyleMapOf(decls) ==
    [ key \in {DeclKey(decls[i]) : i \in {j \in 1..Len(decls) : DeclSets(decls[j])}} |->
        DeclValue(decls[CHOOSE i \in 1..Len(decls) :
                          /\ DeclSets(decls[i]) /\ DeclKey(decls[i]) = key
                          /\ \A j \in (i + 1)..Len(decls) :
                                ~(DeclSets(decls[j]) /\ DeclKey(decls[j]) = key)]) ]

\* buildInlineStyleMap(styleText); an absent attribute (null) and '' are both <<>>
buildInlineStyleMap(styleText) ==
    IF styleText = <<>> THEN <<>> ELSE StyleMapOf(Split(styleText, ";"))

\* the numerals of the model's alphabet and the numbers they denote, in tenths
NumeralValue(tok) ==
    CASE tok = "0"   -> Tenths(0)
      [] tok = "0.5" -> Tenths(5)
      [] tok = "2"   -> Tenths(20)
      [] tok = "20"  -> Tenths(200)
      [] tok = "30"  -> Tenths(300)
      [] tok = "700" -> Tenths(7000)
      [] tok = "-4"  -> Tenths(-40)
      [] OTHER       -> NaN

\* Number(s): white space is trimmed, '' is 0, a numeral is its value, else NaN
NumberOf(s) ==
    LET str == Trim(s)
    IN  IF str = <<>> THEN Num(0)
        ELSE IF Len(str) = 1 THEN NumeralValue(str[1])
        ELSE NaN

\* String.prototype.endsWith for a unit token
EndsWith(s, tok) == s # <<>> /\ s[Len(s)] = tok

\* parseFontSizeValue(raw)
parseFontSizeValue(raw) ==
    IF raw = Undefined THEN Undefined
    ELSE IF EndsWith(raw[1], "px") THEN Def(NumberOf(RemoveFirst(raw[1], "px")))
    ELSE IF EndsWith(raw[1], "em")
         THEN LET val == NumberOf(RemoveFirst(raw[1], "em"))
              IN  Def(IF IsNaN(val) \/ val = Num(0) THEN Num(1) ELSE val)
    ELSE Undefined

\* parseLineHeightValue(raw)
parseLineHeightValue(raw) ==
    IF raw = Undefined THEN Undefined
    ELSE IF EndsWith(raw[1], "px") THEN Def(NumberOf(RemoveFirst(raw[1], "px")))
    ELSE IF EndsWith(raw[1], "em")
         THEN LET val == NumberOf(RemoveFirst(raw[1], "em"))
              IN  Def(IF IsNaN(val) \/ val = Num(0) THEN Tenths(12) ELSE val)
    ELSE LET numeric == NumberOf(raw[1])
         IN  IF IsNaN(numeric) THEN Undefined ELSE Def(numeric)

\* parseFontWeightValue(raw)
parseFontWeightValue(raw) ==
    IF raw = Undefined THEN Undefined
    ELSE IF raw[1] = <<"bold">> THEN Def(Num(700))
    ELSE IF raw[1] = <<"normal">> THEN Def(Num(400))
    ELSE LET numeric == NumberOf(raw[1])
         IN  Def(IF IsNaN(numeric) \/ numeric = Num(0) THEN Num(400) ELSE numeric)

\* parseItalicValue(raw): /italic|oblique/i.test(raw)
parseItalicValue(raw) ==
    IF raw = Undefined THEN Undefined
    ELSE Def(\E i \in 1..Len(raw[1]) : LowerTok(raw[1][i]) \in {"italic", "oblique"})

\* a ParsedInlineStyle with no field set
EmptyStyle ==
    [ fontSize |-> Undefined, lineHeight |-> Undefined, fontWeight |-> Undefined,
      italic |-> Undefined, color |-> Undefined, fontFamily |-> Undefined ]

\* setInlineStyleValue(target, key, value)
setInlineStyleValue(target, key, value) ==
    IF value # Undefined THEN [target EXCEPT ![key] = value] ELSE target

\* a merge that overwrites what is already set, so that the farthest ancestor
\* wins (a variant that C4 tells from mergeInlineStyleValue)
mergeOverwriting(target, source, key) == setInlineStyleValue(target, key, source[key])

\* mergeInlineStyleValue(target, source, key)
mergeInlineStyleValue(target, source, key) ==
    IF target[key] = Undefined
    THEN setInlineStyleValue(target, key, source[key])
    ELSE target

\* the order of the entries of parseInlineStyle and of inlineFields
inlineFields == <<"fontSize", "lineHeight", "fontWeight", "italic", "color", "fontFamily">>

\* the entries of parseInlineStyle: what each field is parsed from
StyleEntry(map, key) ==
    CASE key = "fontSize"   -> parseFontSizeValue(MapGet(map, <<"font-size">>))
      [] key = "lineHeight" -> parseLineHeightValue(MapGet(map, <<"line-height">>))
      [] key = "fontWeight" -> parseFontWeightValue(MapGet(map, <<"font-weight">>))
      [] key = "italic"     -> parseItalicValue(MapGet(map, <<"font-style">>))
      [] key = "color"      -> MapGet(map, <<"color">>)
      [] key = "fontFamily" -> MapGet(map, <<"font-family">>)

\* entries.forEach(([key, value]) => setInlineStyleValue(result, key, value)):
\* each call touches the field of its key only
StyleOfMap(map) ==
    [key \in DOMAIN EmptyStyle |->
        setInlineStyleValue(EmptyStyle, key, StyleEntry(map, key))[key]]

\* parseInlineStyle(el), given the element's style attribute
parseInlineStyle(styleText) == StyleOfMap(buildInlineStyleMap(styleText))

\* mergeInlineStyle(target, source): inlineFields.forEach((field) =>
\* mergeInlineStyleValue(target, source, field)); each call touches its field only
mergeInlineStyle(target, source) ==
    [key \in DOMAIN target |-> mergeInlineStyleValue(target, source, key)[key]]

(***************************************************************************)
(* The DOM a DOMParser returns: dom.node[n] for n in 1..Len(dom.node),     *)
(* node HtmlNode the <html> element and node BodyNode its <body>; parent   *)
(* 0 is null.                                                              *)
(***************************************************************************)
HtmlNode == 1
BodyNode == 2

\* node.parentNode
parentNode(dom, n) == dom.node[n].parent

\* el.parentElement: the parent when it is an element (the parent of <html> is
\* the document, which is none)
parentElement(dom, n) ==
    LET p == dom.node[n].parent
    IN  IF p # 0 /\ dom.node[p].nodeType = "element" THEN p ELSE 0

RECURSIVE AncestorLoop(_, _, _)
\* the while-loop of collectAncestorInlineStyle, from element cur upwards
AncestorLoop(dom, cur, collected) ==
    IF cur # 0 /\ dom.node[cur].nodeType = "element"
    THEN AncestorLoop(dom, parentElement(dom, cur),
                      mergeInlineStyle(collected, parseInlineStyle(dom.node[cur].style)))
    ELSE collected

\* x ?? d
Coalesce(x, d) == IF x = Undefined THEN d ELSE x[1]

\* the record collectAncestorInlineStyle returns, fontSize being resolved
ResolvedStyle(collected, defaults, fontSize) ==
    [ fontSize   |-> fontSize,
      lineHeight |-> Coalesce(collected.lineHeight, Times(fontSize, defaults.lineHeight)),
      fontWeight |-> Coalesce(collected.fontWeight, Num(400)),
      italic     |-> collected.italic = Def(TRUE),
      color      |-> IF collected.color \in {Undefined, Def(<<>>)}
                     THEN <<"#000">> ELSE collected.color[1],
      fontFamily |-> IF collected.fontFamily = Undefined
                     THEN <<>> ELSE collected.fontFamily[1] ]

\* the defaults applied to what the ancestors set
ApplyDefaults(collected, defaults) ==
    ResolvedStyle(collected, defaults, Coalesce(collected.fontSize, defaults.fontSize))

\* HtmlParser.collectAncestorInlineStyle(node, defaults)
collectAncestorInlineStyle(dom, n, defaults) ==
    ApplyDefaults(AncestorLoop(dom, parentNode(dom, n), EmptyStyle), defaults)

skipTags == {"SCRIPT", "STYLE"}

\* node.textContent collapsed and trimmed, as walk does for a text node
WalkContent(raw) == Trim(CollapseWhiteSpace(raw))

\* new IntermediateText({...}) as walk calls it, sty the style and m the metrics
WalkTextOf(id, idx, content, y, sty, m) ==
    [ id |-> TextId(id, idx), content |-> content,
      fontSize |-> sty.fontSize, fontFamily |-> sty.fontFamily,
      fontWeight |-> sty.fontWeight, italic |-> sty.italic, color |-> sty.color,
      width |-> m.width, height |-> m.height, lineHeight |-> sty.lineHeight,
      x |-> Num(0), y |-> y, ascent |-> m.ascent, descent |-> m.descent,
      vertical |-> FALSE, dir |-> detectDir(content),
      rotate |-> Num(0), skew |-> Num(0), isEOL |-> TRUE ]

\* the run of a text node whose style is sty
WalkStyled(id, idx, content, y, sty) ==
    WalkTextOf(id, idx, content, y, sty,
               estimateTextMetrics(content, sty.fontSize, sty.lineHeight))

\* the run walk builds for a text node n with content, at offset y
WalkText(dom, id, idx, n, content, y) ==
    WalkStyled(id, idx, content, y,
               collectAncestorInlineStyle(dom, n,
                   [fontSize |-> Num(16), lineHeight |-> Tenths(12)]))

\* a walk that descends into every element, SCRIPT and STYLE included (a variant
\* that C1 tells from walk)
WalkDescendsEverywhere(dom, n) == TRUE

\* whether walk descends into element n
WalkDescends(dom, n) == dom.node[n].tagName \notin skipTags

\* the order in which walk visits the children of an element
WalkOrder(kids) == kids

RECURSIVE WalkFrom(_, _, _, _)

\* texts.push(text); y += height
WalkPush(acc, t) ==
    [ texts |-> Append(acc.texts, t), idx |-> acc.idx + 1, y |-> Plus(acc.y, t.height) ]

\* walk on a text node n whose collapsed text is content
WalkTextNode(dom, id, n, rest, acc, content) ==
    IF content = <<>> THEN WalkFrom(dom, id, rest, acc)
    ELSE WalkFrom(dom, id, rest,
                  WalkPush(acc, WalkText(dom, id, acc.idx, n, content, acc.y)))

\* walk(n), then the calls still to be made
WalkNode(dom, id, n, rest, acc) ==
    IF dom.node[n].nodeType = "element"
    THEN IF WalkDescends(dom, n)
         THEN WalkFrom(dom, id, WalkOrder(dom.node[n].childNodes) \o rest, acc)
         ELSE WalkFrom(dom, id, rest, acc)
    ELSE IF dom.node[n].nodeType # "text" THEN WalkFrom(dom, id, rest, acc)
    ELSE WalkTextNode(dom, id, n, rest, acc, WalkContent(dom.node[n].textContent))

\* the calls of walk still to be made, in order: walk(Head(pending)) runs next,
\* and the calls it makes for its children come before the rest.  acc holds the
\* closure's texts, idx and y
WalkFrom(dom, id, pending, acc) ==
    IF pending = <<>> THEN acc
    ELSE WalkNode(dom, id, Head(pending), Tail(pending), acc)

\* walk(node)
walk(dom, id, n, acc) == WalkFrom(dom, id, <<n>>, acc)

\* HtmlParser.collectTextsFromHtml(html, id), given the DOM parseFromString returns
collectTextsFromHtml(dom, id) ==
    [title |-> IF dom.title # <<>> THEN dom.title ELSE <<"Untitled HTML">>]
    @@ WithPageHeight(
           walk(dom, id, BodyNode, [texts |-> <<>>, idx |-> 0, y |-> Num(0)]).texts)

(***************************************************************************)
(* Inputs of encode.                                                       *)
(***************************************************************************)
\* a byte that is no valid UTF-8, and the character a non-fatal decoder puts for it
BadByte == "xFF"
Replacement == "U+FFFD"

\* the bytes of a raw input: ASCII characters (one byte each) and a bad byte
RawAlphabet == {"a", "<", " ", NL, BadByte}

RECURSIVE SeqsUpTo(_, _)
\* the sequences over S of length at most n
SeqsUpTo(S, n) ==
    IF n = 0 THEN {<<>>}
    ELSE LET shorter == SeqsUpTo(S, n - 1)
         IN  shorter \cup {Append(q, c) : q \in {r \in shorter : Len(r) = n - 1}, c \in S}

RawInputs == SeqsUpTo(RawAlphabet, MaxLen)

\* style attributes of the model's documents
StyleA == <<"font-weight", ":", "bold", ";", "font-size", ":", "20", "px", ";",
            "color", ":", "red">>
StyleB == <<"font-weight", ":", " ", "normal", ";", "font-style", ":", "Italic", ";",
            "line-height", ":", "2">>
StyleC == <<"FONT-WEIGHT", ":", "700", ";", "font-size", ":", "30", "px", ";",
            "font-style", ":", "normal", ";", " ", "font-family", ":", "serif", ";",
            "color", ";", "font-weight", ":", " ">>

\* style attributes whose numeric values are malformed, zero or negative
StyleD == <<"font-size", ":", "abc", "px", ";", "line-height", ":", "12", "pt", ";",
            "font-weight", ":", "bolder">>
StyleE == <<"font-size", ":", "px", ";", "line-height", ":", "px", ";",
            "font-weight", ":", "0">>
StyleF == <<"font-size", ":", "-4", "px", ";", "line-height", ":", "0">>

\* a style attribute whose color holds a double quote followed by markup, as
\* getAttribute returns it for style='color:red"><span class="hamster-note-text" id="x'
QuotedColor == <<"red", "\"", ">", "<", "span", " ", "class", "=", "\"",
                 "hamster-note-text", "\"", " ", "id", "=", "\"", "x">>
StyleQ == <<"color", ":">> \o QuotedColor

Element(tag, style) ==
    [nodeType |-> "element", tagName |-> tag, style |-> style, textContent |-> <<>>]
TextNode(text) ==
    [nodeType |-> "text", tagName |-> "", style |-> <<>>, textContent |-> text]
CommentNode ==
    [nodeType |-> "comment", tagName |-> "", style |-> <<>>, textContent |-> <<"c">>]

\* the nodes of documents that vary in structure
WalkKinds ==
    { Element("DIV", <<>>), Element("SCRIPT", <<>>), Element("STYLE", <<>>),
      TextNode(<<"a">>), TextNode(<<" ", NL>>),
      TextNode(<<" ", "b", NL, " ", "c", " ">>), CommentNode }

\* the nodes of documents that vary in inline style
StyleKinds ==
    { Element("DIV", <<>>), Element("DIV", StyleA), Element("DIV", StyleB),
      Element("DIV", StyleC), TextNode(<<"a">>) }

\* the nodes of documents that vary in the numeric values of their inline styles
UnitKinds ==
    { Element("DIV", StyleA), Element("DIV", StyleD), Element("DIV", StyleE),
      Element("DIV", StyleF), TextNode(<<"a">>) }

\* the nodes of documents that vary in the markup their inline styles hold
QuoteKinds == { Element("DIV", StyleQ), TextNode(<<"a">>) }

\* node k of a document with n nodes below <body>: parent par[k], kind kind[k]
DomNode(n, par, kind, bodyStyle, k) ==
    LET kids(p) == { c \in 3..(n + 2) : par[c] = p }
        ordered(p) == [ i \in 1..Cardinality(kids(p)) |->
                          CHOOSE c \in kids(p) :
                              Cardinality({d \in kids(p) : d < c}) = i - 1 ]
    IN  IF k = HtmlNode
        THEN Element("HTML", <<>>) @@ [parent |-> 0, childNodes |-> <<BodyNode>>]
        ELSE IF k = BodyNode
        THEN Element("BODY", bodyStyle) @@ [parent |-> HtmlNode, childNodes |-> ordered(k)]
        ELSE kind[k] @@ [parent |-> par[k], childNodes |-> ordered(k)]

\* what an HTML parser can produce: children only below elements, only text
\* below SCRIPT and STYLE, and no two text nodes side by side
WellFormed(n, par, kind) ==
    /\ \A k \in 3..(n + 2) :
          /\ par[k] < k
          /\ par[k] # BodyNode =>
                /\ kind[par[k]].nodeType = "element"
                /\ kind[par[k]].tagName \in skipTags => kind[k].nodeType = "text"
    /\ \A j, k \in 3..(n + 2) :
          (j < k /\ par[j] = par[k] /\ kind[j].nodeType = "text"
             /\ kind[k].nodeType = "text")
          => \E m \in (j + 1)..(k - 1) : par[m] = par[j]

\* the parent assignments of n nodes below <body>, in the order of creation
Parents(n) == { par \in [3..(n + 2) -> 2..(n + 1)] : \A k \in 3..(n + 2) : par[k] < k }

\* the document with n nodes below <body>, parents par and kinds kind
Dom(n, par, kind, bodyStyle, title) ==
    [ title |-> title,
      node  |-> [k \in 1..(n + 2) |-> DomNode(n, par, kind, bodyStyle, k)] ]

Titles == {<<>>, <<"T">>}

\* the tag name as written in markup
MarkupTag(tag) ==
    CASE tag = "DIV" -> "div" [] tag = "SCRIPT" -> "script" [] tag = "STYLE" -> "style"
      [] tag = "BODY" -> "body" [] tag = "HTML" -> "html" [] OTHER -> tag

\* character data as written in markup, a character reference being one token
MarkupText(text) ==
    [i \in 1..Len(text) |->
        CASE text[i] = "&" -> "&amp;" [] text[i] = "<" -> "&lt;"
          [] text[i] = ">" -> "&gt;" [] OTHER -> text[i]]

\* an attribute value as written in markup, between double quotes
MarkupAttr(value) ==
    [i \in 1..Len(value) |->
        CASE value[i] = "&" -> "&amp;" [] value[i] = "\"" -> "&quot;"
          [] OTHER -> value[i]]

\* the start tag of element n, with the <head> that follows <html>
StartTag(dom, n) ==
    LET nd == dom.node[n]
    IN  <<"<", MarkupTag(nd.tagName)>>
        \o (IF nd.style = <<>> THEN <<>>
            ELSE <<" ", "style=", "\"">> \o MarkupAttr(nd.style) \o <<"\"">>)
        \o <<">">>
        \o (IF n = HtmlNode
            THEN <<"<", "head", ">">>
                 \o (IF dom.title = <<>> THEN <<>>
                     ELSE <<"<", "title", ">">> \o MarkupText(dom.title)
                          \o <<"</", "title", ">">>)
                 \o <<"</", "head", ">">>
            ELSE <<>>)

EndTag(dom, n) == <<"</", MarkupTag(dom.node[n].tagName), ">">>

RECURSIVE MarkupFrom(_, _)
\* the markup of what is still to be written: nodes (n > 0) and the end tags
\* of the elements already opened (-n)
MarkupFrom(dom, pending) ==
    IF pending = <<>> THEN <<>>
    ELSE LET n    == Head(pending)
             rest == Tail(pending)
         IN  IF n < 0 THEN EndTag(dom, -n) \o MarkupFrom(dom, rest)
             ELSE IF dom.node[n].nodeType = "comment"
             THEN <<"<!--">> \o dom.node[n].textContent \o <<"-->">>
                  \o MarkupFrom(dom, rest)
             ELSE IF dom.node[n].nodeType = "text"
             THEN (IF dom.node[dom.node[n].parent].tagName \in skipTags
                   THEN dom.node[n].textContent
                   ELSE MarkupText(dom.node[n].textContent))
                  \o MarkupFrom(dom, rest)
             ELSE StartTag(dom, n)
                  \o MarkupFrom(dom, dom.node[n].childNodes \o <<-n>> \o rest)

\* the markup of node n
Markup(dom, n) == MarkupFrom(dom, <<n>>)

\* the HTML text that parser.parseFromString(html, 'text/html') turns into dom
HtmlOf(dom) == Markup(dom, HtmlNode)

\* a document of no interest: the one at hand when there is no DOMParser
NoDom == [title |-> <<>>, node |-> <<>>]

\* `html-${Date.now()}` at the time of the call
DocumentId == <<"html-", "1762214400000">>

pageWidth == 800

(***************************************************************************)
(* Rendering.  In markup every character that matters to an HTML parser    *)
(* (< > " ' & / = and the space inside a tag) is a token of its own.       *)
(***************************************************************************)
\* an escapeHtml that replaces & last, after the replacements that produce it
\* (a variant that C5 tells from escapeHtml)
escapeHtmlAmpersandLast(text) ==
    ReplaceAll(ReplaceAll(ReplaceAll(ReplaceAll(ReplaceAll(text,
        "<", <<"&", "lt;">>), ">", <<"&", "gt;">>), "\"", <<"&", "quot;">>),
        "'", <<"&", "#39;">>), "&", <<"&", "amp;">>)

\* escapeHtml(text)
escapeHtml(text) ==
    ReplaceAll(ReplaceAll(ReplaceAll(ReplaceAll(ReplaceAll(text,
        "&", <<"&", "amp;">>), "<", <<"&", "lt;">>), ">", <<"&", "gt;">>),
        "\"", <<"&", "quot;">>), "'", <<"&", "#39;">>)

\* Math.abs(val) < 1
BelowOne(val) == ~IsNaN(val) /\ val.v > -10 /\ val.v < 10

\* `${n}` for a number of tenths n >= 0
FormatTenths(n) ==
    IF n % 10 = 0 THEN ToString(n \div 10)
    ELSE ToString(n \div 10) \o "." \o ToString(n % 10)

\* `${val}`
FormatNumber(val) ==
    IF IsNaN(val) THEN "NaN"
    ELSE IF val.v < 0 THEN "-" \o FormatTenths(-val.v)
    ELSE FormatTenths(val.v)

\* (val * 100).toFixed(4), for a val of tenths below one
ToFixed4Percent(val) == ToString(val.v * 10) \o ".0000"

\* cssPxOrPercent(val)
cssPxOrPercent(val) ==
    IF BelowOne(val) THEN <<ToFixed4Percent(val) \o "%">>
    ELSE <<FormatNumber(val) \o "px">>

\* font sizes put through the rule of lengths (a variant that C13 tells from
\* cssFontSize)
cssFontSizeAsLength(val) == cssPxOrPercent(val)

\* cssFontSize(val)
cssFontSize(val) ==
    IF BelowOne(val) THEN <<FormatNumber(val) \o "em">>
    ELSE <<FormatNumber(val) \o "px">>

\* a number as a condition: 0 and NaN are falsy
Truthy(val) == ~IsNaN(val) /\ val.v # 0

\* the transform declaration of renderTextSpan
TransformOf(t) ==
    IF Truthy(t.rotate) /\ Truthy(t.skew)
    THEN <<"transform:rotate(" \o FormatNumber(t.rotate) \o "deg) skewX("
             \o FormatNumber(t.skew) \o "deg);">>
    ELSE IF Truthy(t.rotate)
    THEN <<"transform:rotate(" \o FormatNumber(t.rotate) \o "deg);">>
    ELSE IF Truthy(t.skew)
    THEN <<"transform:skewX(" \o FormatNumber(t.skew) \o "deg);">>
    ELSE <<>>

\* the start tag of renderTextSpan up to the opening quote of its style
SpanOpen(t) ==
    <<"<", "span", " ", "class", "=", "\"", "hamster-note-text", "\"", " ",
      "id", "=", "\"">> \o t.id \o <<"\"", " ", "style", "=", "\"">>

\* the declarations of renderTextSpan that hold numbers
SpanBox(t) ==
    <<"left:">> \o cssPxOrPercent(t.x) \o <<";top:">> \o cssPxOrPercent(t.y)
    \o <<";width:">> \o cssPxOrPercent(t.width)
    \o <<";height:">> \o cssPxOrPercent(t.height)
    \o <<";font-size:">> \o cssFontSize(t.fontSize)
    \o <<";line-height:">> \o cssFontSize(t.lineHeight) \o <<";">>

\* weight, fontStyle, family and color of renderTextSpan
SpanFont(t) ==
    <<"font-weight:"
        \o FormatNumber(IF Truthy(t.fontWeight) THEN t.fontWeight ELSE Num(400))
        \o ";">>
    \o <<IF t.italic THEN "font-style:italic;" ELSE "font-style:normal;">>
    \o (IF t.fontFamily # <<>> THEN <<"font-family:">> \o t.fontFamily \o <<";">>
        ELSE <<>>)
    \o (IF t.color # <<>> /\ t.color # <<"transparent">>
        THEN <<"color:">> \o t.color \o <<";">> ELSE <<>>)

\* direction and writing mode of renderTextSpan
SpanFlow(t) ==
    <<IF t.dir = "rtl" THEN "direction:rtl;" ELSE "direction:ltr;">>
    \o <<IF t.vertical \/ t.dir = "ttb" THEN "writing-mode:vertical-rl;"
         ELSE "writing-mode:horizontal-tb;">>

\* HtmlParser.renderTextSpan(t)
renderTextSpan(t) ==
    SpanOpen(t) \o SpanBox(t) \o SpanFont(t) \o SpanFlow(t) \o TransformOf(t)
    \o <<"\"", ">">> \o escapeHtml(t.content) \o <<"<", "/", "span", ">">>

\* p.texts.map((t) => HtmlParser.renderTextSpan(t)).join('')
RenderTexts(p) == Concat([k \in 1..Len(p.texts) |-> renderTextSpan(p.texts[k])])

\* const bg = thumb ? `background-image:url('${thumb}');` : ''
BackgroundOf(thumb) ==
    IF thumb = Undefined \/ thumb = Def(<<>>) THEN <<>>
    ELSE <<"background-image:url(", "'">> \o thumb[1] \o <<"'", ");">>

\* the string lazyRenderPageDiv returns, given the spans and the thumbnail
PageDiv(p, spans, thumb) ==
    <<"<", "div", " ", "class", "=", "\"", "hamster-note-page", "\"", " ",
      "id", "=", "\"">> \o p.id
    \o <<"\"", " ", "style", "=", "\"", "width:">> \o cssPxOrPercent(p.width)
    \o <<";height:">> \o cssPxOrPercent(p.height) \o <<";">> \o BackgroundOf(thumb)
    \o <<"\"", ">">> \o spans \o <<"<", "/", "div", ">">>

\* HtmlParser.getFragmentStyle(): the style sheet, one piece of text
getFragmentStyle == <<" .hamster-note-document { ... } ">>

\* what decodeToHtml returns, given the page strings in the order of pageHtml
FragmentOf(pageHtml) ==
    <<"<", "div", " ", "class", "=", "\"", "hamster-note-document", "\"", ">",
      "<", "style", ">">> \o getFragmentStyle \o <<"<", "/", "style", ">">>
    \o Concat(pageHtml) \o <<"<", "/", "div", ">">>

(***************************************************************************)
(* Reading markup as a structure: what an HTML parser makes of a fragment, *)
(* one token at a time.  The reader keeps the elements still open and      *)
(* collects the hamster-note-page blocks with the hamster-note-text        *)
(* elements inside them.  (Character references in attribute values are    *)
(* left as they are; the style sheet holds no markup.)                     *)
(***************************************************************************)
\* the characters that end a name inside a tag
MarkupChars == {"<", ">", "\"", "'", "&", "/", "=", " "}

\* the character a character reference stands for, given what follows its &
EntityChar(tail) ==
    CASE tail = "amp;" -> "&" [] tail = "lt;" -> "<" [] tail = "gt;" -> ">"
      [] tail = "quot;" -> "\"" [] tail = "#39;" -> "'"

EntityTails == {"amp;", "lt;", "gt;", "quot;", "#39;"}

\* the reader before the first token
ReaderStart ==
    [ pos |-> 1, mode |-> "data", closing |-> FALSE, tag |-> <<>>,
      attr |-> <<>>, value |-> <<>>, cls |-> Undefined, ident |-> Undefined,
      open |-> <<>>, blocks |-> <<>>, stray |-> 0 ]

\* the reader in another state of the tokenizer
InMode(r, mode) == [r EXCEPT !.mode = mode]

\* whether the text element k of block b is open
TextIsOpen(open, b, k) ==
    \E e \in 1..Len(open) :
        open[e].kind = "text" /\ open[e].blk = b /\ open[e].idx = k

\* a character of text: it belongs to every text element that is open
AppendChar(r, ch) ==
    [r EXCEPT !.blocks =
        [b \in 1..Len(r.blocks) |->
            [ id    |-> r.blocks[b].id,
              texts |-> [k \in 1..Len(r.blocks[b].texts) |->
                            IF TextIsOpen(r.open, b, k)
                            THEN [ id |-> r.blocks[b].texts[k].id,
                                   content |-> Append(r.blocks[b].texts[k].content, ch) ]
                            ELSE r.blocks[b].texts[k]] ]]]

\* the attribute just read is kept: of a repeated attribute the first counts
CommitAttr(r) ==
    [r EXCEPT !.cls   = IF r.attr = <<"class">> /\ r.cls = Undefined
                        THEN Def(r.value) ELSE r.cls,
              !.ident = IF r.attr = <<"id">> /\ r.ident = Undefined
                        THEN Def(r.value) ELSE r.ident,
              !.attr = <<>>, !.value = <<>>]

\* whether the start tag just read has the class
HasClass(r, name) ==
    r.cls # Undefined /\ \E i \in 1..Len(r.cls[1]) : r.cls[1][i] = name

\* the block of the innermost page element that is open, or 0
OpenPage(open) ==
    IF \E e \in 1..Len(open) : open[e].kind = "page"
    THEN open[CHOOSE e \in 1..Len(open) :
                 /\ open[e].kind = "page"
                 /\ \A f \in (e + 1)..Len(open) : open[f].kind # "page"].blk
    ELSE 0

\* an element pushed on the stack of open elements
Opened(r, kind, blk, idx) ==
    Append(r.open, [tag |-> r.tag, kind |-> kind, blk |-> blk, idx |-> idx])

\* a hamster-note-text start tag inside the page block b
OpenText(r, b) ==
    [r EXCEPT !.blocks[b].texts =
                  Append(r.blocks[b].texts,
                         [id |-> Coalesce(r.ident, <<>>), content |-> <<>>]),
              !.open = Opened(r, "text", b, Len(r.blocks[b].texts) + 1)]

\* a start tag: the element is opened
OpenElement(r) ==
    IF HasClass(r, "hamster-note-page")
    THEN [r EXCEPT !.blocks = Append(r.blocks,
                                     [id |-> Coalesce(r.ident, <<>>), texts |-> <<>>]),
                   !.open = Opened(r, "page", Len(r.blocks) + 1, 0)]
    ELSE IF HasClass(r, "hamster-note-text")
    THEN IF OpenPage(r.open) = 0
         THEN [r EXCEPT !.stray = r.stray + 1, !.open = Opened(r, "other", 0, 0)]
         ELSE OpenText(r, OpenPage(r.open))
    ELSE [r EXCEPT !.open = Opened(r, "other", 0, 0)]

\* an end tag: the nearest open element of that name is closed, with all inside it
CloseElement(r) ==
    IF \E e \in 1..Len(r.open) : r.open[e].tag = r.tag
    THEN [r EXCEPT !.open =
             SubSeq(r.open, 1,
                    (CHOOSE e \in 1..Len(r.open) :
                        /\ r.open[e].tag = r.tag
                        /\ \A f \in (e + 1)..Len(r.open) : r.open[f].tag # r.tag) - 1)]
    ELSE r

\* the > that ends a tag
EmitTag(r) ==
    [(IF r.closing THEN CloseElement(r) ELSE OpenElement(r))
        EXCEPT !.mode = "data", !.closing = FALSE, !.tag = <<>>,
               !.cls = Undefined, !.ident = Undefined]

\* a token of text
DataStep(r, tok) ==
    IF tok = "<" THEN InMode(r, "tagOpen")
    ELSE IF tok = "&" THEN InMode(r, "charRef")
    ELSE AppendChar(r, tok)

\* a token between attributes
AttrStart(r, tok) ==
    IF tok \in {" ", "/"} THEN InMode(r, "beforeAttr")
    ELSE IF tok = ">" THEN EmitTag(r)
    ELSE [r EXCEPT !.mode = "attrName", !.attr = <<tok>>, !.value = <<>>]

\* one token read in the reader's state (the position is advanced by the caller)
LexStep(r, tok) ==
    CASE r.mode = "data" -> DataStep(r, tok)
      [] r.mode = "charRef" ->
            IF tok \in EntityTails THEN AppendChar(InMode(r, "data"), EntityChar(tok))
            ELSE DataStep(AppendChar(InMode(r, "data"), "&"), tok)
      [] r.mode = "tagOpen" ->
            IF tok = "/" THEN InMode(r, "endTagOpen")
            ELSE IF tok \notin MarkupChars
            THEN [r EXCEPT !.mode = "tagName", !.closing = FALSE, !.tag = <<tok>>]
            ELSE DataStep(AppendChar(InMode(r, "data"), "<"), tok)
      [] r.mode = "endTagOpen" ->
            IF tok = ">" THEN InMode(r, "data")
            ELSE IF tok \notin MarkupChars
            THEN [r EXCEPT !.mode = "tagName", !.closing = TRUE, !.tag = <<tok>>]
            ELSE InMode(r, "bogus")
      [] r.mode = "bogus" -> IF tok = ">" THEN InMode(r, "data") ELSE r
      [] r.mode = "tagName" ->
            IF tok \in {" ", "/"} THEN InMode(r, "beforeAttr")
            ELSE IF tok = ">" THEN EmitTag(r)
            ELSE [r EXCEPT !.tag = Append(r.tag, tok)]
      [] r.mode = "beforeAttr" -> AttrStart(r, tok)
      [] r.mode = "attrName" ->
            IF tok = " " THEN InMode(r, "afterAttrName")
            ELSE IF tok = "=" THEN InMode(r, "beforeValue")
            ELSE IF tok = "/" THEN InMode(CommitAttr(r), "beforeAttr")
            ELSE IF tok = ">" THEN EmitTag(CommitAttr(r))
            ELSE [r EXCEPT !.attr = Append(r.attr, tok)]
      [] r.mode = "afterAttrName" ->
            IF tok = " " THEN r
            ELSE IF tok = "=" THEN InMode(r, "beforeValue")
            ELSE AttrStart(CommitAttr(r), tok)
      [] r.mode = "beforeValue" ->
            IF tok = " " THEN r
            ELSE IF tok = "\"" THEN InMode(r, "valueDouble")
            ELSE IF tok = "'" THEN InMode(r, "valueSingle")
            ELSE IF tok = ">" THEN EmitTag(CommitAttr(r))
            ELSE [r EXCEPT !.mode = "valueBare", !.value = <<tok>>]
      [] r.mode = "valueDouble" ->
            IF tok = "\"" THEN InMode(CommitAttr(r), "afterValue")
            ELSE [r EXCEPT !.value = Append(r.value, tok)]
      [] r.mode = "valueSingle" ->
            IF tok = "'" THEN InMode(CommitAttr(r), "afterValue")
            ELSE [r EXCEPT !.value = Append(r.value, tok)]
      [] r.mode = "valueBare" ->
            IF tok = " " THEN InMode(CommitAttr(r), "beforeAttr")
            ELSE IF tok = ">" THEN EmitTag(CommitAttr(r))
            ELSE [r EXCEPT !.value = Append(r.value, tok)]
      [] r.mode = "afterValue" -> AttrStart(r, tok)

(***************************************************************************)
(* encode.                                                                 *)
(***************************************************************************)
VARIABLES
    fileOrBuffer,  \* the argument: [readable, bytes]
    env,           \* the host: [hasTextDecoder, hasDOMParser, parserThrows]
    parsed,        \* the document DOMParser returns for the input's text
    pc,            \* where encode stands
    buffer,        \* const buffer
    html,          \* const html
    title,         \* let title
    texts,         \* let texts
    pageHeight,    \* let pageHeight
    domRes,        \* what the structural importer returned, when it returned
    result         \* what encode returned: Undefined, or the document

encodeVars ==
    <<fileOrBuffer, env, parsed, pc, buffer, html, title, texts, pageHeight, domRes,
      result>>

VARIABLES
    intermediateDocument,  \* the argument of decodeToHtml
    thumbnails,            \* how getThumbnail of each page settles
    dpc,                   \* where decodeToHtml stands
    pages,                 \* const pages
    rendered,              \* const texts of each call of lazyRenderPageDiv
    pagePc,                \* where each call of lazyRenderPageDiv stands
    pageHtml,              \* the values Promise.all has collected
    fragment,              \* what decodeToHtml returned, when it returned
    reader                 \* an HTML parser reading the fragment

decodeVars ==
    <<intermediateDocument, thumbnails, dpc, pages, rendered, pagePc, pageHtml,
      fragment, reader>>

vars == <<encodeVars, decodeVars>>

\* new TextDecoder('utf-8').decode(buffer): not fatal, so a malformed byte
\* decodes to U+FFFD and nothing is thrown
Utf8Decode(bytes) ==
    [i \in 1..Len(bytes) |-> IF bytes[i] = BadByte THEN Replacement ELSE bytes[i]]

\* HtmlParser.decodeBufferToString(buffer): the catch is reached when the host
\* has no TextDecoder (a ReferenceError)
decodeBufferToString(hasTextDecoder, bytes) ==
    IF hasTextDecoder THEN Def(Utf8Decode(bytes)) ELSE Undefined

\* the IntermediateDocument encode builds: one page holding the runs
AssembleDocument(id, docTitle, runs, height) ==
    [ id    |-> id,
      title |-> docTitle,
      pages |-> << [ id |-> PageId(id), number |-> 1, width |-> Num(pageWidth),
                     height |-> height, texts |-> runs, thumbnail |-> Undefined ] >> ]

InitLocals ==
    /\ pc = "start"
    /\ buffer = Undefined
    /\ html = Undefined
    /\ title = <<>>
    /\ texts = <<>>
    /\ pageHeight = Num(0)
    /\ domRes = Undefined
    /\ result = Undefined

\* a host without DOMParser (Node), given any bytes
InitRaw ==
    /\ fileOrBuffer \in [readable : BOOLEAN, bytes : RawInputs]
    /\ env \in [hasTextDecoder : BOOLEAN, hasDOMParser : {FALSE}, parserThrows : {FALSE}]
    /\ parsed = NoDom

\* parsed is a document of at most MaxNodes nodes of the given kinds below <body>
ParsedFrom(kinds, bodyStyles, titles) ==
    \E n \in 0..MaxNodes : \E par \in Parents(n), kind \in [3..(n + 2) -> kinds] :
        /\ WellFormed(n, par, kind)
        /\ \E bodyStyle \in bodyStyles, docTitle \in titles :
               parsed = Dom(n, par, kind, bodyStyle, docTitle)

\* the parsed documents of the model: some vary in structure, some in inline
\* style, some in the numbers and some in the markup their inline styles hold
InitParsed ==
    \/ ParsedFrom(WalkKinds, {<<>>}, Titles)
    \/ ParsedFrom(StyleKinds, {<<>>, StyleB}, {<<>>})
    \/ ParsedFrom(UnitKinds, {<<>>}, {<<>>})
    \/ ParsedFrom(QuoteKinds, {<<>>}, {<<>>})

\* a host with DOMParser (a browser), given the markup of a document
InitDom ==
    /\ InitParsed
    /\ fileOrBuffer = [readable |-> TRUE, bytes |-> HtmlOf(parsed)]
    /\ env \in [hasTextDecoder : {TRUE}, hasDOMParser : {TRUE}, parserThrows : BOOLEAN]

\* decodeToHtml is not called
DecodeIdle ==
    /\ intermediateDocument = [id |-> <<>>, title |-> <<>>, pages |-> <<>>]
    /\ thumbnails = <<>>
    /\ dpc = "idle"
    /\ pages = <<>>
    /\ rendered = <<>>
    /\ pagePc = <<>>
    /\ pageHtml = <<>>
    /\ fragment = Undefined
    /\ reader = ReaderStart

Init == (InitRaw \/ InitDom) /\ InitLocals /\ DecodeIdle

\* const buffer = await this.toArrayBuffer(fileOrBuffer).catch(() => undefined)
ReadInput ==
    /\ pc = "start"
    /\ buffer' = IF fileOrBuffer.readable THEN Def(fileOrBuffer.bytes) ELSE Undefined
    /\ pc' = "read"
    /\ UNCHANGED <<fileOrBuffer, env, parsed, html, title, texts, pageHeight, domRes,
                   result>>
    /\ UNCHANGED decodeVars

\* if (!buffer) return undefined; html = decodeBufferToString(buffer);
\* if (html == null) return undefined; then the declarations of the locals
DecodeInput ==
    /\ pc = "read"
    /\ html' = IF buffer = Undefined THEN Undefined
               ELSE decodeBufferToString(env.hasTextDecoder, buffer[1])
    /\ IF html' = Undefined
       THEN /\ pc' = "done"
            /\ result' = Undefined
            /\ UNCHANGED <<title, texts, pageHeight>>
       ELSE /\ pc' = "decoded"
            /\ title' = <<"Untitled HTML">>
            /\ texts' = <<>>
            /\ pageHeight' = Num(0)
            /\ UNCHANGED result
    /\ UNCHANGED <<fileOrBuffer, env, parsed, buffer, domRes>>
    /\ UNCHANGED decodeVars

\* title = res.title || title; texts = res.texts; pageHeight = res.pageHeight
TakeDomResult(res) ==
    /\ domRes' = Def(res)
    /\ title' = IF res.title # <<>> THEN res.title ELSE title
    /\ texts' = res.texts
    /\ pageHeight' = res.pageHeight

\* texts = res.texts; pageHeight = res.pageHeight
TakeFallbackResult(res) ==
    /\ texts' = res.texts
    /\ pageHeight' = res.pageHeight

\* if (typeof DOMParser !== 'undefined') try { res = collectTextsFromHtml(html, id);
\* title = res.title || title; texts = res.texts; pageHeight = res.pageHeight } catch {}
ParseDom ==
    /\ pc = "decoded"
    /\ pc' = "parsed"
    /\ IF env.hasDOMParser /\ ~env.parserThrows
       THEN TakeDomResult(collectTextsFromHtml(parsed, DocumentId))
       ELSE UNCHANGED <<domRes, title, texts, pageHeight>>
    /\ UNCHANGED <<fileOrBuffer, env, parsed, buffer, html, result>>
    /\ UNCHANGED decodeVars

\* if (texts.length === 0) { res = fallbackPlainText(html, id); texts = res.texts;
\* pageHeight = res.pageHeight }
Fallback ==
    /\ pc = "parsed"
    /\ pc' = "collected"
    /\ IF Len(texts) = 0
       THEN TakeFallbackResult(fallbackPlainText(html[1], DocumentId))
       ELSE UNCHANGED <<texts, pageHeight>>
    /\ UNCHANGED <<fileOrBuffer, env, parsed, buffer, html, title, domRes, result>>
    /\ UNCHANGED decodeVars

\* the page list, the IntermediateDocument and return new HtmlDocument(...)
Assemble ==
    /\ pc = "collected"
    /\ pc' = "done"
    /\ result' = Def(AssembleDocument(DocumentId, title, texts, pageHeight))
    /\ UNCHANGED <<fileOrBuffer, env, parsed, buffer, html, title, texts, pageHeight,
                   domRes>>
    /\ UNCHANGED decodeVars

Next == ReadInput \/ DecodeInput \/ ParseDom \/ Fallback \/ Assemble

Spec == Init /\ [][Next]_vars

(***************************************************************************)
(* decodeToHtml.                                                           *)
(***************************************************************************)
\* most pages of a document given to decodeToHtml
MaxPages == 2
\* longest content of the run of a one-run document
MaxContent == 2

\* a run as encode's fallback makes it
PlainRun ==
    [FallbackText(<<"d">>, 0, <<"a", "<", "&", ">", "\"", "'">>, Num(0), Num(16), Num(19))
        EXCEPT !.id = <<"t1">>]

\* a run that differs from it in every field renderTextSpan reads
StyledRun ==
    [PlainRun EXCEPT !.id = <<"t2">>, !.content = <<"&", "lt;", " ", "b">>,
                     !.x = Tenths(5), !.y = Num(19), !.fontSize = Tenths(5),
                     !.fontFamily = <<"serif">>, !.fontWeight = Num(0),
                     !.italic = TRUE, !.color = <<"transparent">>, !.dir = "rtl",
                     !.vertical = TRUE, !.rotate = Num(90), !.skew = Num(-4)]

\* a run whose color holds a quote followed by markup, as the color of an
\* element styled color:red&quot;&gt;&lt;span class=... is after parsing
QuotedRun ==
    [PlainRun EXCEPT !.id = <<"t3">>, !.content = <<"c">>,
                     !.color = <<"red", "\"", ">", "<", "span", " ", "class", "=", "\"",
                                 "hamster-note-text", "\"", " ", "id", "=", "\"", "x">>]

\* new IntermediatePage({...})
Page(id, runs) ==
    [ id |-> id, number |-> 1, width |-> Num(pageWidth), height |-> Num(38),
      texts |-> runs, thumbnail |-> Undefined ]

\* the pages the model's documents are made of
PagePool ==
    { Page(<<"p1">>, <<PlainRun>>), Page(<<"p2">>, <<PlainRun, StyledRun>>),
      Page(<<"p3">>, <<QuotedRun>>) }

\* the characters of the content of a run
ContentAlphabet == {"a", "&", "<", ">", "\"", "'", "lt;"}

\* the pages in their sequence, each with its number
Numbered(ps) == [i \in 1..Len(ps) |-> [ps[i] EXCEPT !.number = i]]

\* the documents given to decodeToHtml
Documents ==
    { [id |-> <<"doc">>, title |-> <<"T">>, pages |-> Numbered(ps)] :
        ps \in SeqsUpTo(PagePool, MaxPages) }
    \cup
    { [id |-> <<"doc">>, title |-> <<"T">>,
       pages |-> << Page(<<"p1">>, << [PlainRun EXCEPT !.content = c] >>) >>] :
        c \in SeqsUpTo(ContentAlphabet, MaxContent) }

\* how a call of getThumbnail can settle: with a URL, with nothing, or rejected
ThumbnailOutcomes ==
    { [kind |-> "resolves", value |-> Def(<<"blob:1">>)],
      [kind |-> "resolves", value |-> Undefined],
      [kind |-> "rejects", value |-> Undefined] }

\* encode is not called
EncodeIdle ==
    /\ fileOrBuffer = [readable |-> FALSE, bytes |-> <<>>]
    /\ env = [hasTextDecoder |-> TRUE, hasDOMParser |-> TRUE, parserThrows |-> FALSE]
    /\ parsed = NoDom
    /\ pc = "idle"
    /\ buffer = Undefined
    /\ html = Undefined
    /\ title = <<>>
    /\ texts = <<>>
    /\ pageHeight = Num(0)
    /\ domRes = Undefined
    /\ result = Undefined

InitDecode ==
    /\ EncodeIdle
    /\ intermediateDocument \in Documents
    /\ thumbnails \in [1..Len(intermediateDocument.pages) -> ThumbnailOutcomes]
    /\ dpc = "start"
    /\ pages = <<>>
    /\ rendered = <<>>
    /\ pagePc = <<>>
    /\ pageHtml = <<>>
    /\ fragment = Undefined
    /\ reader = ReaderStart

\* const pages = await intermediateDocument.pages
AwaitPages ==
    /\ dpc = "start"
    /\ dpc' = "pages"
    /\ pages' = intermediateDocument.pages
    /\ UNCHANGED <<intermediateDocument, thumbnails, rendered, pagePc, pageHtml,
                   fragment, reader>>
    /\ UNCHANGED encodeVars

\* Promise.all(pages.map((p) => HtmlParser.lazyRenderPageDiv(p))): every call
\* runs up to its await, so every page has its spans rendered and its
\* thumbnail asked for before any thumbnail arrives
StartPages ==
    /\ dpc = "pages"
    /\ dpc' = "waiting"
    /\ rendered' = [i \in 1..Len(pages) |-> RenderTexts(pages[i])]
    /\ pagePc' = [i \in 1..Len(pages) |-> "fetching"]
    /\ pageHtml' = [i \in 1..Len(pages) |-> Undefined]
    /\ UNCHANGED <<intermediateDocument, thumbnails, pages, fragment, reader>>
    /\ UNCHANGED encodeVars

\* a position filled with whatever arrives first (a variant that C9 tells from
\* Promise.all)
StoreOnArrival(values, i, v) ==
    [values EXCEPT ![CHOOSE j \in 1..Len(values) :
                        /\ values[j] = Undefined
                        /\ \A k \in 1..(j - 1) : values[k] # Undefined] = Def(v)]

\* Promise.all keeps the value of the i-th promise at position i
PromiseAllStore(values, i, v) == [values EXCEPT ![i] = Def(v)]

\* the thumbnail of page i arrives: lazyRenderPageDiv(pages[i]) goes on after
\* its await and returns the page's string
ThumbnailResolves(i) ==
    /\ pagePc[i] = "fetching"
    /\ thumbnails[i].kind = "resolves"
    /\ pagePc' = [pagePc EXCEPT ![i] = "rendered"]
    /\ pageHtml' = PromiseAllStore(pageHtml, i,
                                   PageDiv(pages[i], rendered[i], thumbnails[i].value))
    /\ UNCHANGED <<intermediateDocument, thumbnails, dpc, pages, rendered, fragment,
                   reader>>
    /\ UNCHANGED encodeVars

\* getThumbnail of page i rejects: the await throws, lazyRenderPageDiv rejects,
\* and so does Promise.all and with it decodeToHtml, unless it already has
ThumbnailRejects(i) ==
    /\ pagePc[i] = "fetching"
    /\ thumbnails[i].kind = "rejects"
    /\ pagePc' = [pagePc EXCEPT ![i] = "rejected"]
    /\ dpc' = IF dpc = "waiting" THEN "rejected" ELSE dpc
    /\ UNCHANGED <<intermediateDocument, thumbnails, pages, rendered, pageHtml,
                   fragment, reader>>
    /\ UNCHANGED encodeVars

\* every promise is fulfilled: return `<div class="hamster-note-document">...`
Join ==
    /\ dpc = "waiting"
    /\ \A i \in 1..Len(pages) : pagePc[i] = "rendered"
    /\ dpc' = "done"
    /\ fragment' = Def(FragmentOf([i \in 1..Len(pages) |-> pageHtml[i][1]]))
    /\ UNCHANGED <<intermediateDocument, thumbnails, pages, rendered, pagePc,
                   pageHtml, reader>>
    /\ UNCHANGED encodeVars

\* the HTML parser reads the next token of the fragment
ReadToken ==
    /\ dpc = "done"
    /\ reader.pos <= Len(fragment[1])
    /\ reader' = [LexStep(reader, fragment[1][reader.pos]) EXCEPT !.pos = reader.pos + 1]
    /\ UNCHANGED <<intermediateDocument, thumbnails, dpc, pages, rendered, pagePc,
                   pageHtml, fragment>>
    /\ UNCHANGED encodeVars

NextDecode ==
    \/ AwaitPages
    \/ StartPages
    \/ \E i \in 1..Len(pagePc) : ThumbnailResolves(i)
    \/ \E i \in 1..Len(pagePc) : ThumbnailRejects(i)
    \/ Join
    \/ ReadToken

SpecDecode == InitDecode /\ [][NextDecode]_vars

(***************************************************************************)
(* Reading a parsed document as a tree, for the properties below.          *)
(***************************************************************************)
RECURSIVE Ancestors(_, _)
\* the elements above node n, nearest first
Ancestors(dom, n) ==
    IF dom.node[n].parent = 0 THEN <<>>
    ELSE <<dom.node[n].parent>> \o Ancestors(dom, dom.node[n].parent)

RECURSIVE PathOf(_, _)
\* the child positions that lead from the root to node n
PathOf(dom, n) ==
    IF dom.node[n].parent = 0 THEN <<>>
    ELSE Append(PathOf(dom, dom.node[n].parent),
                IndexOf(dom.node[dom.node[n].parent].childNodes, n))

\* path p comes before path q in depth-first document order
PathBefore(p, q) ==
    \E i \in 1..Len(q) :
        /\ i - 1 <= Len(p)
        /\ \A j \in 1..(i - 1) : p[j] = q[j]
        /\ (Len(p) = i - 1 \/ p[i] < q[i])

\* the nodes of S in depth-first document order
InDocumentOrder(dom, S) ==
    [k \in 1..Cardinality(S) |->
        CHOOSE n \in S :
            Cardinality({m \in S : PathBefore(PathOf(dom, m), PathOf(dom, n))}) = k - 1]

\* the text of a text node with every run of white space made one space, trimmed
CollapsedText(dom, n) == Trim(CollapseWhiteSpace(dom.node[n].textContent))

\* the text nodes of the body that have text and lie in no SCRIPT or STYLE subtree
VisibleTextNodes(dom) ==
    { n \in 1..Len(dom.node) :
        /\ dom.node[n].nodeType = "text"
        /\ CollapsedText(dom, n) # <<>>
        /\ \E i \in 1..Len(Ancestors(dom, n)) : Ancestors(dom, n)[i] = BodyNode
        /\ \A i \in 1..Len(Ancestors(dom, n)) :
              dom.node[Ancestors(dom, n)[i]].tagName \notin {"SCRIPT", "STYLE"} }

\* the contents of a sequence of runs
ContentsOf(runs) == [k \in 1..Len(runs) |-> runs[k].content]

(***************************************************************************)
(* C1.  The runs the structural importer emits are exactly the text nodes  *)
(* of the body whose collapsed, trimmed text is not empty and that lie in  *)
(* no SCRIPT or STYLE subtree: one run per such node, in depth-first       *)
(* document order, the collapsed text being the run's content.             *)
(***************************************************************************)
C1_RunsAreVisibleTextNodes ==
    domRes # Undefined =>
        ContentsOf(domRes[1].texts)
          = [k \in 1..Cardinality(VisibleTextNodes(parsed)) |->
                CollapsedText(parsed,
                    InDocumentOrder(parsed, VisibleTextNodes(parsed))[k])]

\* a document with text inside a SCRIPT or STYLE element, and one run emitted
\* whose text was collapsed and trimmed
C1_Witness ==
    /\ domRes # Undefined
    /\ ContentsOf(domRes[1].texts) = << <<"b", " ", "c">> >>
    /\ \E n \in 1..Len(parsed.node) :
          /\ parsed.node[n].nodeType = "text"
          /\ parsed.node[n].textContent = <<"a">>
          /\ parsed.node[parsed.node[n].parent].tagName \in skipTags

(***************************************************************************)
(* Reading a raw input as lines, for the properties below.                 *)
(***************************************************************************)
\* the lines of a text: what lies between one newline and the next
LinesOf(s) == Split(s, NL)

\* the positions of the lines that are not blank
NonBlankLines(s) == {i \in 1..Len(LinesOf(s)) : Trim(LinesOf(s)[i]) # <<>>}

\* the non-blank lines, trimmed, in input order
TrimmedLines(s) ==
    AtPositions([i \in 1..Len(LinesOf(s)) |-> Trim(LinesOf(s)[i])], NonBlankLines(s))

\* the runs of the document encode returned
RunsOf(res) == res[1].pages[1].texts

\* encode ran on a host without DOMParser and could decode its input
FallbackOnly == pc = "done" /\ ~env.hasDOMParser /\ html # Undefined

(***************************************************************************)
(* C2.  Without a DOMParser, encode of a decodable input returns a         *)
(* document titled "Untitled HTML" with exactly one page, whose runs are,  *)
(* in input order, one per non-blank line of the raw input, the content of *)
(* a run being its line trimmed and otherwise verbatim.                    *)
(***************************************************************************)
C2_FallbackRunsAreLines ==
    FallbackOnly =>
        /\ result # Undefined
        /\ result[1].title = <<"Untitled HTML">>
        /\ Len(result[1].pages) = 1
        /\ ContentsOf(RunsOf(result)) = TrimmedLines(html[1])

\* an indented line of markup, a blank line and a line of text give two runs
C2_Witness ==
    /\ FallbackOnly
    /\ html[1] = <<" ", "<", NL, NL, "a">>
    /\ ContentsOf(RunsOf(result)) = << <<"<">>, <<"a">> >>

(***************************************************************************)
(* C3.  In the fallback a blank line produces no run but moves the         *)
(* vertical offset down by one line height (19): the first run's y is 19   *)
(* for each blank line before it, and each later run's y is the previous   *)
(* run's y + height plus 19 for each blank line between the two.           *)
(***************************************************************************)
\* the number of blank lines between line i and line j
BlankLinesBetween(s, i, j) ==
    Cardinality({m \in (i + 1)..(j - 1) : m \notin NonBlankLines(s)})

\* the line the k-th run comes from (line 0 stands before the first line)
LineOfRun(s, k) == IF k = 0 THEN 0 ELSE Sorted(NonBlankLines(s))[k]

C3_BlankLineAdvancesOffset ==
    FallbackOnly =>
        /\ ContentsOf(RunsOf(result)) = TrimmedLines(html[1])
        /\ \A k \in 1..Len(RunsOf(result)) :
              RunsOf(result)[k].y =
                  Plus(IF k = 1 THEN Num(0)
                       ELSE Plus(RunsOf(result)[k - 1].y, RunsOf(result)[k - 1].height),
                       Num(19 * BlankLinesBetween(html[1], LineOfRun(html[1], k - 1),
                                                  LineOfRun(html[1], k))))

\* two lines with an empty line between them
C3_Witness ==
    /\ FallbackOnly
    /\ html[1] = <<"a", NL, NL, "a">>
    /\ Len(RunsOf(result)) = 2

(***************************************************************************)
(* C4.  Style resolution is nearest-ancestor-wins per field: each of       *)
(* fontSize, lineHeight, fontWeight, italic, color and fontFamily of a run *)
(* is the value set by the closest ancestor element of its text node (from *)
(* the parent upwards) whose inline style sets that field, and the default *)
(* (16, 1.2 x fontSize, 400, false, "#000", "") when no ancestor sets it.  *)
(***************************************************************************)
\* what the inline style of the i-th ancestor of n sets for the field
SetByAncestor(dom, n, i, field) ==
    parseInlineStyle(dom.node[Ancestors(dom, n)[i]].style)[field]

\* the ancestors of n whose inline style sets the field, by distance
Setters(dom, n, field) ==
    {i \in 1..Len(Ancestors(dom, n)) : SetByAncestor(dom, n, i, field) # Undefined}

\* the value of the closest ancestor that sets the field, or the default d
NearestOr(dom, n, field, d) ==
    IF Setters(dom, n, field) = {} THEN d
    ELSE SetByAncestor(dom, n,
             CHOOSE i \in Setters(dom, n, field) : \A j \in Setters(dom, n, field) : i <= j,
             field)[1]

\* the text node the k-th run comes from
NodeOfRun(dom, k) == InDocumentOrder(dom, VisibleTextNodes(dom))[k]

\* run t has the style its text node n resolves to
NearestWins(dom, n, t) ==
    /\ t.fontSize = NearestOr(dom, n, "fontSize", Num(16))
    /\ t.lineHeight = NearestOr(dom, n, "lineHeight", Times(t.fontSize, Tenths(12)))
    /\ t.fontWeight = NearestOr(dom, n, "fontWeight", Num(400))
    /\ t.italic = NearestOr(dom, n, "italic", FALSE)
    /\ t.color = NearestOr(dom, n, "color", <<"#000">>)
    /\ t.fontFamily = NearestOr(dom, n, "fontFamily", <<>>)

C4_NearestAncestorWins ==
    domRes # Undefined =>
        \A k \in 1..Len(domRes[1].texts) :
            NearestWins(parsed, NodeOfRun(parsed, k), domRes[1].texts[k])

\* a text node whose parent says font-weight: normal below an element that says
\* font-weight: bold, resolved to 400 and to the font size of the farther one
C4_Witness ==
    /\ domRes # Undefined
    /\ \E k \in 1..Len(domRes[1].texts) :
          /\ Len(Ancestors(parsed, NodeOfRun(parsed, k))) >= 2
          /\ SetByAncestor(parsed, NodeOfRun(parsed, k), 1, "fontWeight") = Def(Num(400))
          /\ SetByAncestor(parsed, NodeOfRun(parsed, k), 2, "fontWeight") = Def(Num(700))
          /\ domRes[1].texts[k].fontWeight = Num(400)
          /\ domRes[1].texts[k].fontSize = Num(20)

(***************************************************************************)
(* Reading a rendered span and a rendered fragment, for the properties     *)
(* below.                                                                  *)
(***************************************************************************)
\* the runs of the document given to decodeToHtml, whatever their page
RunsOfDocument ==
    UNION { { intermediateDocument.pages[i].texts[k] :
                k \in 1..Len(intermediateDocument.pages[i].texts) } :
            i \in 1..Len(intermediateDocument.pages) }

\* how long the span of t is before its content: the start tag
StartTagLength(t) == Len(renderTextSpan([t EXCEPT !.content = <<>>])) - 4

\* the text renderTextSpan puts between the start tag and </span>
EmbeddedText(t) ==
    SubSeq(renderTextSpan(t), StartTagLength(t) + 1, Len(renderTextSpan(t)) - 4)

\* position j of e is an & that starts one of the five entities
StartsEntity(e, j) == e[j] = "&" /\ j < Len(e) /\ e[j + 1] \in EntityTails

\* e with every entity replaced by the character it stands for
UnescapeHtml(e) ==
    AtPositions([j \in 1..Len(e) |-> IF StartsEntity(e, j) THEN EntityChar(e[j + 1])
                                     ELSE e[j]],
                {j \in 1..Len(e) : ~(j > 1 /\ StartsEntity(e, j - 1))})

(***************************************************************************)
(* C5.  For every run, the text renderTextSpan embeds between the span     *)
(* tags holds no raw < > " or ', every & in it starts one of the entities  *)
(* &amp; &lt; &gt; &quot; &#39;, and replacing the entities back gives the *)
(* run's content exactly.                                                  *)
(***************************************************************************)
\* e is an escaped form of content
EscapedFormOf(e, content) ==
    /\ \A j \in 1..Len(e) :
          /\ e[j] \notin {"<", ">", "\"", "'"}
          /\ e[j] = "&" => StartsEntity(e, j)
    /\ UnescapeHtml(e) = content

\* the spans of every page have just been rendered
SpansRendered == dpc = "waiting" /\ \A i \in 1..Len(pagePc) : pagePc[i] = "fetching"

C5_ContentIsEscaped ==
    SpansRendered => \A t \in RunsOfDocument : EscapedFormOf(EmbeddedText(t), t.content)

\* a rendered run whose content holds all five characters, and one whose
\* content reads like an entity
C5_Witness ==
    /\ SpansRendered
    /\ \E t \in RunsOfDocument :
          {"&", "<", ">", "\"", "'"} \subseteq {t.content[j] : j \in 1..Len(t.content)}
    /\ \E t \in RunsOfDocument : t.content = <<"&", "lt;", " ", "b">>

(***************************************************************************)
(* C6.  Round trip of decodeToHtml: the fragment, read as a structure,     *)
(* holds exactly one hamster-note-page block per page of the document, in  *)
(* the order of the pages, and inside each block exactly one               *)
(* hamster-note-text element per run of the page, in run order, with the   *)
(* run's id and, after unescaping, the run's content.                      *)
(***************************************************************************)
\* decodeToHtml has just returned
Returned == dpc = "done" /\ reader = ReaderStart

\* the parser has read the whole fragment
FragmentRead == dpc = "done" /\ reader.pos > Len(fragment[1])

\* the blocks a document stands for
BlocksOf(doc) ==
    [i \in 1..Len(doc.pages) |->
        [ id    |-> doc.pages[i].id,
          texts |-> [k \in 1..Len(doc.pages[i].texts) |->
                        [ id      |-> doc.pages[i].texts[k].id,
                          content |-> doc.pages[i].texts[k].content ]] ]]

C6_FragmentReadsBackAsDocument ==
    FragmentRead =>
        reader.blocks = BlocksOf(intermediateDocument) /\ reader.stray = 0

\* a page whose run has a quote in its color, rendered and read
C6_Witness ==
    /\ FragmentRead
    /\ \E t \in RunsOfDocument : \E j \in 1..Len(t.color) : t.color[j] = "\""

(***************************************************************************)
(* C8.  A thumbnail that is missing or whose fetch fails never prevents    *)
(* rendering: decodeToHtml still returns the fragment with every page and  *)
(* every run, the page merely lacking its background-image.                *)
(***************************************************************************)
\* the thumbnail lazyRenderPageDiv has for page i when there is one to have
ThumbnailOrNone(i) ==
    IF thumbnails[i].kind = "resolves" THEN thumbnails[i].value ELSE Undefined

\* the fragment with every page and every run
WholeFragment ==
    FragmentOf([i \in 1..Len(intermediateDocument.pages) |->
                   PageDiv(intermediateDocument.pages[i],
                           RenderTexts(intermediateDocument.pages[i]),
                           ThumbnailOrNone(i))])

C8_ThumbnailNeverBlocksRendering ==
    /\ dpc # "rejected"
    /\ Returned => fragment = Def(WholeFragment)

\* a call of decodeToHtml in which the thumbnail of a page has failed
C8_Witness ==
    \E i \in 1..Len(pagePc) : pagePc[i] = "rejected"

(***************************************************************************)
(* C9.  The thumbnails are fetched concurrently, and in whatever order     *)
(* they arrive the fragment is the same: the string of page i is kept at   *)
(* position i, and the page blocks of the fragment stand in the order of   *)
(* the document's pages.                                                   *)
(***************************************************************************)
\* the string of page i
PageString(i) ==
    PageDiv(intermediateDocument.pages[i], RenderTexts(intermediateDocument.pages[i]),
            thumbnails[i].value)

C9_OrderIsThePageSequence ==
    /\ dpc = "waiting" =>
          \A i \in 1..Len(pageHtml) :
              pageHtml[i] # Undefined => pageHtml[i] = Def(PageString(i))
    /\ Returned =>
          fragment = Def(FragmentOf([i \in 1..Len(intermediateDocument.pages) |->
                                        PageString(i)]))

\* the thumbnail of the second page has arrived while that of a different
\* first page is still being fetched
C9_Witness ==
    /\ dpc = "waiting"
    /\ Len(pages) = 2
    /\ pages[1].id # pages[2].id
    /\ pagePc[1] = "fetching"
    /\ pagePc[2] = "rendered"

(***************************************************************************)
(* C7.  If the input bytes are not valid UTF-8, encode returns undefined   *)
(* and builds no document.  (encode has no step at which an exception      *)
(* leaves it: every call that can throw is caught.)                        *)
(***************************************************************************)
InvalidUtf8(bytes) == \E i \in 1..Len(bytes) : bytes[i] = BadByte

C7_InvalidBytesReturnUndefined ==
    (pc = "done" /\ InvalidUtf8(fileOrBuffer.bytes)) => result = Undefined

\* a readable input with a malformed byte, on a host with TextDecoder
C7_Witness ==
    /\ pc = "done"
    /\ fileOrBuffer = [readable |-> TRUE, bytes |-> <<BadByte>>]
    /\ env.hasTextDecoder

(***************************************************************************)
(* C10.  A structural parse that yields no run is treated like one that    *)
(* fails: the fallback runs on the raw input, and the document is the one  *)
(* encode builds when there is no DOMParser, titled "Untitled HTML".       *)
(***************************************************************************)
\* the document encode builds from the text when the host has no DOMParser
FallbackDocument(text) ==
    AssembleDocument(DocumentId, <<"Untitled HTML">>,
                     fallbackPlainText(text, DocumentId).texts,
                     fallbackPlainText(text, DocumentId).pageHeight)

\* the structural parse failed, or returned no run
ParseGaveNothing ==
    /\ pc = "done" /\ env.hasDOMParser /\ html # Undefined
    /\ env.parserThrows \/ (domRes # Undefined /\ domRes[1].texts = <<>>)

C10_NoRunsIsLikeParseFailure ==
    ParseGaveNothing => result = Def(FallbackDocument(html[1]))

\* a document with a title and no text in its body
C10_Witness ==
    /\ ParseGaveNothing
    /\ ~env.parserThrows
    /\ parsed.title = <<"T">>

(***************************************************************************)
(* C11.  Every run of a document encode returns, from the structural       *)
(* importer or from the fallback, whatever the inline styles say (zero,    *)
(* negative or non-numeric font-size and line-height included), has a      *)
(* width and a height that are numbers of at least 1.                      *)
(***************************************************************************)
\* a >= 1; no comparison with NaN is true
AtLeastOne(a) == ~IsNaN(a) /\ a.v >= 10

C11_RunsHavePositiveSize ==
    result # Undefined =>
        \A k \in 1..Len(RunsOf(result)) :
            /\ AtLeastOne(RunsOf(result)[k].width)
            /\ AtLeastOne(RunsOf(result)[k].height)

\* a text below an element whose font-size is not a number of pixels
C11_Witness ==
    /\ result # Undefined
    /\ domRes # Undefined
    /\ domRes[1].texts # <<>>
    /\ \E k \in 1..Len(RunsOf(result)) :
          /\ SetByAncestor(parsed, NodeOfRun(parsed, k), 1, "fontSize") = Def(NaN)
          /\ IsNaN(RunsOf(result)[k].width)

(***************************************************************************)
(* C12.  A font-size, line-height or font-weight value that cannot be      *)
(* parsed as a number in its unit ("abcpx", "px", "12pt", "bolder") never  *)
(* reaches a run: the resolved field is the documented default (fontSize   *)
(* 16, lineHeight 1.2 x fontSize, fontWeight 400) or the valid value of an *)
(* ancestor, never a non-number or a zero taken from the bad declaration.  *)
(***************************************************************************)
\* what the style attribute of the i-th ancestor of n declares for the property
DeclaredByAncestor(dom, n, i, property) ==
    MapGet(buildInlineStyleMap(dom.node[Ancestors(dom, n)[i]].style), property)

\* the value is a numeral followed by the unit ("" for no unit)
NumberInUnit(value, unit) ==
    LET digits == IF unit = "" THEN Trim(value)
                  ELSE IF EndsWith(value, unit)
                       THEN Trim(SubSeq(value, 1, Len(value) - 1))
                       ELSE <<>>
    IN  Len(digits) = 1 /\ ~IsNaN(NumeralValue(digits[1]))

\* the value is well formed for the property
WellFormedValue(property, value) ==
    CASE property = <<"font-size">>   -> \E u \in {"px", "em"} : NumberInUnit(value, u)
      [] property = <<"line-height">> -> \E u \in {"px", "em", ""} : NumberInUnit(value, u)
      [] property = <<"font-weight">> ->
             value \in {<<"bold">>, <<"normal">>} \/ NumberInUnit(value, "")

\* the values of the field that the ancestors of n declare in a well-formed way
ValidValues(dom, n, field, property) ==
    { SetByAncestor(dom, n, i, field)[1] :
        i \in { j \in 1..Len(Ancestors(dom, n)) :
                  /\ DeclaredByAncestor(dom, n, j, property) # Undefined
                  /\ WellFormedValue(property,
                                     DeclaredByAncestor(dom, n, j, property)[1]) } }

\* run t of text node n has a default or a valid value in each numeric field
DefaultOrValid(dom, n, t) ==
    /\ t.fontSize \in {Num(16)} \cup ValidValues(dom, n, "fontSize", <<"font-size">>)
    /\ t.lineHeight \in {Times(t.fontSize, Tenths(12))}
                           \cup ValidValues(dom, n, "lineHeight", <<"line-height">>)
    /\ t.fontWeight \in {Num(400)} \cup ValidValues(dom, n, "fontWeight", <<"font-weight">>)

C12_BadValuesResolveToDefaults ==
    domRes # Undefined =>
        \A k \in 1..Len(domRes[1].texts) :
            DefaultOrValid(parsed, NodeOfRun(parsed, k), domRes[1].texts[k])

\* a text whose only styled ancestor says font-size: px, resolved to font size 0
C12_Witness ==
    /\ domRes # Undefined
    /\ \E k \in 1..Len(domRes[1].texts) :
          /\ DeclaredByAncestor(parsed, NodeOfRun(parsed, k), 1, <<"font-size">>)
                 = Def(<<"px">>)
          /\ ValidValues(parsed, NodeOfRun(parsed, k), "fontSize", <<"font-size">>) = {}
          /\ domRes[1].texts[k].fontSize = Num(0)

(***************************************************************************)
(* C13.  The exporter renders every numeric field of a run with a unit     *)
(* rule on its magnitude.  As stated: one rule for all six fields, a value *)
(* of magnitude below 1 as a percentage (value x 100 with 4 decimals) and  *)
(* any other as pixels, for x, y, width, height, font size and line        *)
(* height alike.  As the code has it: that rule for x, y, width and height *)
(* only; font size and line height of magnitude below 1 are rendered in em *)
(* with the value unchanged, and as pixels otherwise.                      *)
(***************************************************************************)
\* the span has one declaration of that name, and its value is the given one
Declares(span, name, value) ==
    \E j \in 1..(Len(span) - 1) :
        /\ span[j] = name /\ span[j + 1] = value
        /\ \A k \in 1..Len(span) : span[k] = name => k = j

\* |v| < 1
MagnitudeBelowOne(v) == ~IsNaN(v) /\ v.v > -10 /\ v.v < 10

\* v x 100 with four decimals, as a percentage
AsPercentage(v) == ToString(v.v * 10) \o ".0000%"
AsPixels(v) == FormatNumber(v) \o "px"
AsEm(v) == FormatNumber(v) \o "em"

PercentOrPixels(v) == IF MagnitudeBelowOne(v) THEN AsPercentage(v) ELSE AsPixels(v)
EmOrPixels(v) == IF MagnitudeBelowOne(v) THEN AsEm(v) ELSE AsPixels(v)

\* position and size of run t are rendered as percentages or pixels
BoxInPercentOrPixels(span, t) ==
    /\ Declares(span, "left:", PercentOrPixels(t.x))
    /\ Declares(span, ";top:", PercentOrPixels(t.y))
    /\ Declares(span, ";width:", PercentOrPixels(t.width))
    /\ Declares(span, ";height:", PercentOrPixels(t.height))

\* font size and line height of run t are rendered as percentages or pixels
FontInPercentOrPixels(span, t) ==
    /\ Declares(span, ";font-size:", PercentOrPixels(t.fontSize))
    /\ Declares(span, ";line-height:", PercentOrPixels(t.lineHeight))

\* font size and line height of run t are rendered in em or pixels
FontInEmOrPixels(span, t) ==
    /\ Declares(span, ";font-size:", EmOrPixels(t.fontSize))
    /\ Declares(span, ";line-height:", EmOrPixels(t.lineHeight))

\* as stated: font size and line height follow the same rule
C13_OneRuleForEveryField ==
    SpansRendered =>
        \A t \in RunsOfDocument :
            LET span == renderTextSpan(t)
            IN  BoxInPercentOrPixels(span, t) /\ FontInPercentOrPixels(span, t)

\* as the code has it: font size and line height are in em below 1
C13_BoxInPercentFontInEm ==
    SpansRendered =>
        \A t \in RunsOfDocument :
            LET span == renderTextSpan(t)
            IN  BoxInPercentOrPixels(span, t) /\ FontInEmOrPixels(span, t)

\* a rendered run with a coordinate and a font size below 1, and one at least 1
C13_Witness ==
    /\ SpansRendered
    /\ \E t \in RunsOfDocument :
          /\ MagnitudeBelowOne(t.x) /\ t.x # Num(0)
          /\ MagnitudeBelowOne(t.fontSize)
          /\ ~MagnitudeBelowOne(t.y) /\ ~MagnitudeBelowOne(t.lineHeight)
          /\ LET span == renderTextSpan(t)
             IN  /\ Declares(span, "left:", "50.0000%")
                 /\ Declares(span, ";font-size:", "0.5em")

(***************************************************************************)
(* C14.  Runs are stacked without overlap.  From the structural importer   *)
(* the first run has y = 0 and every later run starts where the one before *)
(* it ends (y + height); in the fallback it starts there or lower.  x is   *)
(* always 0, the page height is max(1, round(max over runs of y + height)) *)
(* and so the bottom edge of every run lies within the page height.        *)
(***************************************************************************)
\* a = b and a <= b as numbers; neither holds of NaN
SameNumber(a, b) == ~IsNaN(a) /\ ~IsNaN(b) /\ a.v = b.v
NoMoreThan(a, b) == ~IsNaN(a) /\ ~IsNaN(b) /\ a.v <= b.v

\* the bottom edge of a run
BottomOf(t) == Plus(t.y, t.height)

\* the runs of the document came from the structural importer
StructuralRuns == domRes # Undefined /\ domRes[1].texts # <<>>

\* each run starts where the one before it ends, or lower if gaps are allowed
Stacked(runs, gaps) ==
    /\ \A k \in 1..Len(runs) : SameNumber(runs[k].x, Num(0))
    /\ runs # <<>> => IF gaps THEN NoMoreThan(Num(0), runs[1].y)
                               ELSE SameNumber(runs[1].y, Num(0))
    /\ \A k \in 2..Len(runs) :
          IF gaps THEN NoMoreThan(BottomOf(runs[k - 1]), runs[k].y)
                  ELSE SameNumber(runs[k].y, BottomOf(runs[k - 1]))

\* h is max(1, round(the lowest bottom edge of the runs))
HeightCovers(runs, h) ==
    /\ NoMoreThan(Num(1), h)
    /\ \A k \in 1..Len(runs) : NoMoreThan(BottomOf(runs[k]), h)
    /\ \/ SameNumber(h, Num(1))
       \/ \E k \in 1..Len(runs) : SameNumber(h, MathRound(BottomOf(runs[k])))

C14_RunsAreStacked ==
    result # Undefined =>
        /\ Stacked(RunsOf(result), ~StructuralRuns)
        /\ HeightCovers(RunsOf(result), result[1].pages[1].height)

\* two runs from the structural importer, the first below an element whose
\* font-size is not a number
C14_Witness ==
    /\ result # Undefined
    /\ StructuralRuns
    /\ Len(RunsOf(result)) >= 2
    /\ IsNaN(RunsOf(result)[1].height)
    /\ IsNaN(RunsOf(result)[2].y)
    /\ IsNaN(result[1].pages[1].height)

(***************************************************************************)
(* C15.  In the fragment decodeToHtml produces for a document built by     *)
(* encode, the only tags and attributes are the exporter's own: no value   *)
(* of a run that comes from the input (content, color, fontFamily) and no  *)
(* run or page id ends the attribute it is embedded in or opens a new      *)
(* element.  Stated on the markup characters: the fragment has as many raw *)
(* < > and " as the fragment of the same document with harmless values.    *)
(***************************************************************************)
\* what decodeToHtml returns for a document of this one page, without thumbnail
FragmentFor(page) == FragmentOf(<< PageDiv(page, RenderTexts(page), Undefined) >>)

\* how many raw < > and " the fragment of the page holds
MarkupCount(page) ==
    LET markup == FragmentFor(page)
    IN  Cardinality({j \in 1..Len(markup) : markup[j] \in {"<", ">", "\""}})

\* the page with every id and every value that comes from the input replaced
Harmless(page) ==
    [page EXCEPT !.id = <<"p">>,
                 !.texts = [k \in 1..Len(page.texts) |->
                               [page.texts[k] EXCEPT !.id = <<"t">>, !.content = <<>>,
                                                     !.color = <<>>,
                                                     !.fontFamily = <<>>]]]

\* encode returned a document whose runs come from the structural importer, or
\* from the raw input on a host without DOMParser
BuiltByEncode == result # Undefined /\ (StructuralRuns \/ ~env.hasDOMParser)

C15_ValuesOpenNoMarkup ==
    BuiltByEncode =>
        MarkupCount(result[1].pages[1]) = MarkupCount(Harmless(result[1].pages[1]))

\* a document built from an element whose color holds a quote and a start tag
C15_Witness ==
    /\ BuiltByEncode
    /\ StructuralRuns
    /\ \E k \in 1..Len(RunsOf(result)) : RunsOf(result)[k].color = QuotedColor

====
